---- MODULE Spec2Model ----
(***************************************************************************)
(* Orbit: a chat page (Home / handleSubmit) that posts its transcript to   *)
(* the agent route (POST /api/agent), which validates the body with        *)
(* payloadSchema and delegates to runAgent.                                *)
(*                                                                         *)
(* Texts that the code trims or measures (drafts, message contents,        *)
(* replies) are sequences of characters; error messages, which the code    *)
(* only copies, are strings.                                               *)
(***************************************************************************)
EXTENDS Integers, Sequences, FiniteSets, TLC

\* ------------------------------------------------------------------ bounds
MaxLen == 2
MaxSubmits == 2
MaxEvents == 3
MaxBodyLen == 2

\* ------------------------------------------------------------------- texts
Chars == {" ", "a"}

IsSpace(c) == c = " "

Texts(n) == UNION {[1..k -> Chars] : k \in 0..n}

RECURSIVE TrimStart(_)
TrimStart(s) ==
    IF s # <<>> /\ IsSpace(Head(s)) THEN TrimStart(Tail(s)) ELSE s

RECURSIVE TrimEnd(_)
TrimEnd(s) ==
    IF s # <<>> /\ IsSpace(s[Len(s)]) THEN TrimEnd(SubSeq(s, 1, Len(s) - 1)) ELSE s

\* String.prototype.trim
Trim(s) == TrimEnd(TrimStart(s))

\* The two fixed texts of the page, abbreviated to their first word.
assistantIntro == <<"I", "'", "m">>

fallbackContent == <<"S", "o", "m", "e", "t", "h", "i", "n", "g">>

\* ----------------------------------------------------------- JSON values
JString(s) == [type |-> "string", value |-> s]

JNumber == [type |-> "number", value |-> <<>>]

Null == "null"

\* An Error instance carries a message (the empty string when it was created
\* without one); a thrown value that is no Error instance carries none.
ErrorOf(m) == [isError |-> TRUE, message |-> m]

NonError == [isError |-> FALSE, message |-> ""]

NoResponse == [status |-> 0, kind |-> "none", body |-> [none |-> TRUE]]

\* How a call settled: it was not made, it returned a text, it threw.
NotCalled == [kind |-> "none", text |-> <<>>, thrown |-> NonError]

Returns(t) == [kind |-> "return", text |-> t, thrown |-> NonError]

Throws(e) == [kind |-> "throw", text |-> <<>>, thrown |-> e]

VARIABLES
    messages,      \* useState<ChatMessage[]>
    draft,         \* useState("")
    isLoading,     \* useState(false)
    error,         \* useState<string | null>(null)
    idsCreated,    \* number of createId() calls so far
    submitEvents,  \* number of submit events handleSubmit received
    fetchCount,    \* number of fetch() calls the page issued
    calls          \* the requests in flight, oldest first; for a request of the
                   \* page, its handleSubmit invocation is suspended in await

vars == <<messages, draft, isLoading, error, idsCreated, submitEvents, fetchCount, calls>>

\* A request in flight: who sent it (and, for the page, on which submit event),
\* how far it got, its body, the response or the rejection of the fetch, and
\* what the POST invocation that served it did (its runAgent calls, how
\* runAgent settled, what it passed to console.error).
NewCall(from, event, body) ==
    [from |-> from, event |-> event, stage |-> "request", body |-> body,
     response |-> NoResponse, rejection |-> NonError,
     agentCalls |-> <<>>, agentResult |-> NotCalled, routeLog |-> <<>>]

Remove(seq, i) == SubSeq(seq, 1, i - 1) \o SubSeq(seq, i + 1, Len(seq))

\* ------------------------------------------------------------ agent route
Roles == {"user", "assistant"}

RoleValues == Roles \cup {"system"}

BodyContents == {JString(s) : s \in Texts(1)} \cup {JNumber}

\* A message of a request body: role and content, possibly a further key (id),
\* possibly no content key at all.
Items ==
    [role : RoleValues, content : BodyContents]
        \cup [role : RoleValues, content : BodyContents, id : {"x"}]
        \cup [role : RoleValues]

ItemLists == UNION {[1..k -> Items] : k \in 0..MaxBodyLen}

\* A request body: text that is no JSON, a JSON object without a messages
\* array, or a JSON object with one.
Bodies ==
    {[kind |-> "malformed", messages |-> <<>>], [kind |-> "noMessages", messages |-> <<>>]}
        \cup {[kind |-> "object", messages |-> ms] : ms \in ItemLists}

messageSchemaAnyLength(m) ==
    /\ "role" \in DOMAIN m
    /\ m.role \in Roles
    /\ "content" \in DOMAIN m
    /\ m.content.type = "string"

\* z.object({role: z.enum(["user", "assistant"]), content: z.string().min(1)})
messageSchema(m) ==
    /\ "role" \in DOMAIN m
    /\ m.role \in Roles
    /\ "content" \in DOMAIN m
    /\ m.content.type = "string"
    /\ Len(m.content.value) >= 1

\* payloadSchema accepts the body: z.object({messages: z.array(...).min(1)})
payloadSchema(body) ==
    /\ body.kind = "object"
    /\ Len(body.messages) >= 1
    /\ \A i \in 1..Len(body.messages) : messageSchema(body.messages[i])

payloadReversed(body) ==
    [i \in 1..Len(body.messages) |->
        [role |-> body.messages[Len(body.messages) + 1 - i].role,
         content |-> body.messages[Len(body.messages) + 1 - i].content.value]]

\* payload.messages of an accepted body: z.object keeps the keys of its shape
\* and drops every other key.
payloadMessages(body) ==
    [i \in 1..Len(body.messages) |->
        [role |-> body.messages[i].role, content |-> body.messages[i].content.value]]

\* payloadSchema.parse throws a ZodError, request.json() a SyntaxError.
ZodError == ErrorOf("ZodError: invalid payload")

SyntaxError == ErrorOf("Unexpected token in JSON")

genericRouteError == "Unexpected error while running the agent."

errorTextFallbackWhenEmpty(e) ==
    IF e.isError /\ e.message # "" THEN e.message ELSE genericRouteError

\* error instanceof Error ? error.message : "Unexpected error while running the agent."
errorText(e) == IF e.isError THEN e.message ELSE genericRouteError

replyJsonTrimmed(t) == [status |-> 200, kind |-> "json", body |-> [reply |-> Trim(t)]]

\* NextResponse.json({ reply })
replyJson(t) == [status |-> 200, kind |-> "json", body |-> [reply |-> t]]

\* NextResponse.json({ error: ... }, { status: 400 })
errorJson(e) == [status |-> 400, kind |-> "json", body |-> [error |-> errorText(e)]]

\* runAgent is imported from @/lib/agent: it returns a text or fails, with an
\* Error (with or without a message) or with a value that is no Error.
AgentOutcomes ==
    {Returns(t) : t \in Texts(MaxLen)}
        \cup {Throws(ErrorOf("X")), Throws(ErrorOf("")), Throws(NonError)}

\* What one invocation of POST does with the request c, runAgent settling as
\* outcome if it is called.
served(c, outcome) ==
    IF c.body.kind = "malformed"
    THEN [c EXCEPT !.stage = "response", !.response = errorJson(SyntaxError),
                   !.routeLog = <<SyntaxError>>]
    ELSE IF ~payloadSchema(c.body)
    THEN [c EXCEPT !.stage = "response", !.response = errorJson(ZodError),
                   !.routeLog = <<ZodError>>]
    ELSE IF outcome.kind = "return"
    THEN [c EXCEPT !.stage = "response", !.response = replyJson(outcome.text),
                   !.agentCalls = <<payloadMessages(c.body)>>, !.agentResult = outcome]
    ELSE [c EXCEPT !.stage = "response", !.response = errorJson(outcome.thrown),
                   !.agentCalls = <<payloadMessages(c.body)>>, !.agentResult = outcome,
                   !.routeLog = <<outcome.thrown>>]

\* export async function POST(request)
POST ==
    \E i \in DOMAIN calls :
        /\ calls[i].stage = "request"
        /\ \E outcome \in AgentOutcomes : calls' = [calls EXCEPT ![i] = served(calls[i], outcome)]
        /\ UNCHANGED <<messages, draft, isLoading, error, idsCreated, submitEvents, fetchCount>>

\* A client other than the page sends a request to the route.
clientPost ==
    /\ calls = <<>>
    /\ \E body \in Bodies : calls' = <<NewCall("client", 0, body)>>
    /\ UNCHANGED <<messages, draft, isLoading, error, idsCreated, submitEvents, fetchCount>>

\* ----------------------------------------------------------------- chat page
canSubmitUntrimmed == Len(draft) > 0 /\ ~isLoading

\* const canSubmit = draft.trim().length > 0 && !isLoading
canSubmit == Len(Trim(draft)) > 0 /\ ~isLoading

\* createId(): an id no earlier call returned
createId == idsCreated + 1

userMessageUntrimmed == [id |-> createId, role |-> "user", content |-> draft]

\* const userMessage = { id: createId(), role: "user", content: draft.trim() }
userMessage == [id |-> createId, role |-> "user", content |-> Trim(draft)]

\* JSON.stringify({messages: optimisticHistory.map(({role, content}) => ({role, content}))})
stringify(history) ==
    [kind |-> "object",
     messages |-> [i \in 1..Len(history) |->
                     [role |-> history[i].role, content |-> JString(history[i].content)]]]

\* onChange of the textarea, which is disabled while isLoading
onChange ==
    /\ ~isLoading
    /\ \E value \in Texts(MaxLen) : draft' = value
    /\ UNCHANGED <<messages, isLoading, error, idsCreated, submitEvents, fetchCount, calls>>

\* handleSubmit past its guard: the optimistic update and the fetch call
submitStep ==
    /\ fetchCount < MaxSubmits
    /\ LET optimisticHistory == Append(messages, userMessage) IN
        /\ messages' = optimisticHistory
        /\ calls' = Append(calls,
                NewCall("page", submitEvents + 1, stringify(optimisticHistory)))
    /\ idsCreated' = idsCreated + 1
    /\ draft' = <<>>
    /\ error' = Null
    /\ isLoading' = TRUE
    /\ fetchCount' = fetchCount + 1

handleSubmitUnguarded ==
    /\ submitEvents < MaxEvents
    /\ submitEvents' = submitEvents + 1
    /\ submitStep

\* handleSubmit, from the submit event to the suspension in await fetch(...)
handleSubmit ==
    /\ submitEvents < MaxEvents
    /\ submitEvents' = submitEvents + 1
    /\ IF ~canSubmit
       THEN UNCHANGED <<messages, draft, isLoading, error, idsCreated, fetchCount, calls>>
       ELSE submitStep

\* fetch() rejects: the request gets no HTTP response.
fetchRejects ==
    \E i \in DOMAIN calls :
        /\ calls[i].stage = "request"
        /\ calls[i].from = "page"
        /\ \E r \in {ErrorOf("Failed to fetch"), NonError} :
            calls' = [calls EXCEPT ![i] = [@ EXCEPT !.stage = "rejected", !.rejection = r]]
        /\ UNCHANGED <<messages, draft, isLoading, error, idsCreated, submitEvents, fetchCount>>

\* Responses the route does not write: an error page of the server or a
\* proxy, or a 200 whose body is no {reply} object.
OtherResponses ==
    {[status |-> 500, kind |-> "text", body |-> [text |-> "Internal Server Error"]],
     [status |-> 200, kind |-> "text", body |-> [text |-> "<html>"]],
     [status |-> 200, kind |-> "json", body |-> [error |-> "no reply"]]}

\* fetch() resolves with such a response.
fetchOtherResponse ==
    \E i \in DOMAIN calls :
        /\ calls[i].stage = "request"
        /\ calls[i].from = "page"
        /\ \E r \in OtherResponses :
            calls' = [calls EXCEPT ![i] = [@ EXCEPT !.stage = "response", !.response = r]]
        /\ UNCHANGED <<messages, draft, isLoading, error, idsCreated, submitEvents, fetchCount>>

\* response.ok
responseOk(r) == r.status >= 200 /\ r.status <= 299

statusMessage(status) == "Request failed with status " \o ToString(status)

tryBlockUntrimmed(c) ==
    IF c.stage = "rejected" THEN Throws(c.rejection)
    ELSE IF ~responseOk(c.response) THEN Throws(ErrorOf(statusMessage(c.response.status)))
    ELSE IF c.response.kind # "json" THEN Throws(ErrorOf("Unexpected token in JSON"))
    ELSE IF "reply" \notin DOMAIN c.response.body
         THEN Throws(ErrorOf("Cannot read properties of undefined (reading 'trim')"))
    ELSE Returns(c.response.body.reply)

\* The try block of handleSubmit once the fetch of c settled: the trimmed
\* reply, or the error that reaches the catch clause.
tryBlock(c) ==
    IF c.stage = "rejected" THEN Throws(c.rejection)
    ELSE IF ~responseOk(c.response) THEN Throws(ErrorOf(statusMessage(c.response.status)))
    ELSE IF c.response.kind # "json" THEN Throws(ErrorOf("Unexpected token in JSON"))
    ELSE IF "reply" \notin DOMAIN c.response.body
         THEN Throws(ErrorOf("Cannot read properties of undefined (reading 'trim')"))
    ELSE Returns(Trim(c.response.body.reply))

\* agentError instanceof Error ? agentError.message : "Unknown error"
agentErrorText(e) == IF e.isError THEN e.message ELSE "Unknown error"

loadingAfterSettleStuck(settled) == settled.kind = "throw"

\* finally { setIsLoading(false) }
loadingAfterSettle(settled) == FALSE

\* handleSubmit, from the settling of fetch to its end
handleSubmitResume ==
    \E i \in DOMAIN calls :
        /\ calls[i].from = "page"
        /\ calls[i].stage \in {"response", "rejected"}
        /\ LET settled == tryBlock(calls[i]) IN
            /\ IF settled.kind = "return"
               THEN /\ messages' = Append(messages,
                            [id |-> createId, role |-> "assistant", content |-> settled.text])
                    /\ error' = error
               ELSE /\ messages' = Append(messages,
                            [id |-> createId, role |-> "assistant", content |-> fallbackContent])
                    /\ error' = agentErrorText(settled.thrown)
            /\ isLoading' = loadingAfterSettle(settled)
        /\ idsCreated' = idsCreated + 1
        /\ calls' = Remove(calls, i)
        /\ UNCHANGED <<draft, submitEvents, fetchCount>>

Init ==
    /\ messages = <<[id |-> 1, role |-> "assistant", content |-> assistantIntro]>>
    /\ draft = <<>>
    /\ isLoading = FALSE
    /\ error = Null
    /\ idsCreated = 1
    /\ submitEvents = 0
    /\ fetchCount = 0
    /\ calls = <<>>

Next ==
    \/ onChange
    \/ handleSubmit
    \/ POST
    \/ fetchRejects
    \/ fetchOtherResponse
    \/ handleSubmitResume

Spec == Init /\ [][Next]_vars

RouteNext == clientPost \/ POST

RouteSpec == Init /\ [][RouteNext]_vars

\* ------------------------------------------------------ claims: agent route
\* The claims' own reading of a request body, stated without the schema.
HasText(m) == "content" \in DOMAIN m /\ m.content.type = "string"

ValidPayload(body) ==
    /\ body.kind = "object"
    /\ body.messages # <<>>
    /\ \A i \in 1..Len(body.messages) :
        /\ body.messages[i].role \in {"user", "assistant"}
        /\ HasText(body.messages[i])
        /\ body.messages[i].content.value # <<>>

\* The message as the body carries it, every key included.
SentMessage(m) ==
    IF "id" \in DOMAIN m
    THEN [role |-> m.role, content |-> m.content.value, id |-> m.id]
    ELSE [role |-> m.role, content |-> m.content.value]

\* The requests the route has answered.
Handled == {i \in DOMAIN calls : calls[i].from = "client" /\ calls[i].stage = "response"}

\* C1, as stated: for a valid payload runAgent is invoked exactly once, with
\* exactly the list of messages of the body, in order and unmodified.
C1_ExactList ==
    \A n \in Handled : LET c == calls[n] IN
        ValidPayload(c.body) =>
            c.agentCalls = <<[i \in 1..Len(c.body.messages) |-> SentMessage(c.body.messages[i])]>>

\* C1, amended: for a valid payload runAgent is invoked exactly once, with one
\* message per message of the body, in the same order, each carrying the role
\* and the content of the body's message unmodified and no other key.
C1_RoleContentInOrder ==
    \A n \in Handled : LET c == calls[n] IN
        ValidPayload(c.body) =>
            /\ Len(c.agentCalls) = 1
            /\ Len(c.agentCalls[1]) = Len(c.body.messages)
            /\ \A i \in 1..Len(c.body.messages) :
                /\ DOMAIN c.agentCalls[1][i] = {"role", "content"}
                /\ c.agentCalls[1][i].role = c.body.messages[i].role
                /\ c.agentCalls[1][i].content = c.body.messages[i].content.value

C1_Witness ==
    \E n \in Handled : LET c == calls[n] IN
        /\ ValidPayload(c.body)
        /\ Len(c.body.messages) = 2
        /\ c.body.messages[1].role # c.body.messages[2].role
        /\ "id" \in DOMAIN c.body.messages[1]
        /\ Len(c.agentCalls) = 1

\* C2: a body that is no valid payload (empty list, a message with empty
\* content or a role outside user/assistant, or otherwise malformed) is answered
\* with status 400 and runAgent is not invoked for it.
C2_InvalidRejected ==
    \A n \in Handled : LET c == calls[n] IN
        ~ValidPayload(c.body) =>
            /\ c.response.status = 400
            /\ c.agentCalls = <<>>
            /\ c.agentResult = NotCalled

C2_Witness ==
    \E n \in Handled : LET c == calls[n] IN
        /\ c.body.kind = "object"
        /\ Len(c.body.messages) = 2
        /\ c.body.messages[1].role = "user"
        /\ HasText(c.body.messages[1])
        /\ c.body.messages[1].content.value = <<"a">>
        /\ c.body.messages[2].role = "assistant"
        /\ HasText(c.body.messages[2])
        /\ c.body.messages[2].content.value = <<>>
        /\ c.response.status = 400
        /\ c.agentCalls = <<>>

\* C3: when validation passes and runAgent returns the text R the response is
\* 200 with body {reply: R}, R verbatim; the route answers 200 in no other case.
C3_ReplyVerbatim ==
    \A n \in Handled : LET c == calls[n] IN
        /\ (ValidPayload(c.body) /\ c.agentResult.kind = "return") =>
                c.response = [status |-> 200, kind |-> "json",
                              body |-> [reply |-> c.agentResult.text]]
        /\ c.response.status = 200 => (ValidPayload(c.body) /\ c.agentResult.kind = "return")

C3_Witness ==
    \E n \in Handled : LET c == calls[n] IN
        /\ ValidPayload(c.body)
        /\ c.agentResult.kind = "return"
        /\ c.agentResult.text = <<" ", "a">>
        /\ c.response.status = 200
        /\ c.response.body.reply = <<" ", "a">>

Failed(c) == ~ValidPayload(c.body) \/ c.agentResult.kind = "throw"

\* C4, as stated: on any failure the response is 400 with body {error: T}, T the
\* failure's message when it carries one and the generic fallback when it
\* carries none.
C4_MessageOrFallback ==
    \A n \in Handled : LET c == calls[n] IN
        Failed(c) =>
            /\ Len(c.routeLog) = 1
            /\ c.response = [status |-> 400, kind |-> "json",
                             body |-> [error |-> IF c.routeLog[1].message # ""
                                                 THEN c.routeLog[1].message
                                                 ELSE "Unexpected error while running the agent."]]

\* C4, amended: on any failure the response is 400 with body {error: T}; T is
\* the failure's message whenever the failure is an Error instance, also when
\* that message is empty, and the generic fallback string when the thrown
\* value is no Error instance.
C4_ErrorMessageOrFallback ==
    \A n \in Handled : LET c == calls[n] IN
        Failed(c) =>
            /\ Len(c.routeLog) = 1
            /\ ~ValidPayload(c.body) => c.routeLog[1] \in {ZodError, SyntaxError}
            /\ ValidPayload(c.body) => c.routeLog[1] = c.agentResult.thrown
            /\ c.response = [status |-> 400, kind |-> "json",
                             body |-> [error |-> IF c.routeLog[1].isError
                                                 THEN c.routeLog[1].message
                                                 ELSE "Unexpected error while running the agent."]]

C4_Witness ==
    \E n \in Handled : LET c == calls[n] IN
        /\ c.agentResult = Throws(ErrorOf(""))
        /\ c.response.status = 400
        /\ c.response.body.error = ""

\* -------------------------------------------------------- claims: chat page
\* The requests of the page that are in flight.
Outstanding == {i \in DOMAIN calls : calls[i].from = "page"}

Blank(d) == \A k \in DOMAIN d : d[k] = " "

\* t is d without its leading and trailing spaces.
IsTrimOf(t, d) ==
    IF Blank(d) THEN t = <<>>
    ELSE \E i \in DOMAIN d : \E j \in i..Len(d) :
            /\ d[i] # " "
            /\ d[j] # " "
            /\ \A k \in 1..(i - 1) : d[k] = " "
            /\ \A k \in (j + 1)..Len(d) : d[k] = " "
            /\ t = SubSeq(d, i, j)

SubmitEvent == submitEvents' = submitEvents + 1

\* A step in which the handleSubmit invocation of request i ends.
Settles(i) == i \in Outstanding /\ calls' = Remove(calls, i)

\* The fetch of c rejected, or its response is not OK or carries no reply.
FetchFailed(c) ==
    \/ c.stage = "rejected"
    \/ /\ c.stage = "response"
       /\ \/ c.response.status < 200
          \/ c.response.status > 299
          \/ c.response.kind # "json"
          \/ "reply" \notin DOMAIN c.response.body

\* C5: every request the page sends carries a valid payload: a non-empty list
\* of messages, each with non-empty content and role user or assistant.
C5_PageSendsValidPayload ==
    \A i \in Outstanding : ValidPayload(calls[i].body)

\* C6: at most one request of the page is outstanding (exactly one while
\* loading, none otherwise); a submit event that arrives while loading issues
\* no network call; and a request leaves flight only after it settled, by the
\* end of its handleSubmit invocation.
C6_OneOutstanding ==
    /\ [](Cardinality(Outstanding) <= 1)
    /\ [](isLoading <=> Outstanding # {})
    /\ [][/\ (SubmitEvent /\ isLoading) => (fetchCount' = fetchCount /\ calls' = calls)
          /\ \A i \in Outstanding :
                \/ /\ Len(calls') >= Len(calls)
                   /\ calls'[i].body = calls[i].body
                   /\ calls'[i].event = calls[i].event
                \/ /\ Settles(i)
                   /\ calls[i].stage \in {"response", "rejected"}
                   /\ Len(messages') = Len(messages) + 1]_vars

\* A submit event arrived while the request of an earlier one was in flight.
C6_Witness ==
    /\ isLoading
    /\ \E i \in Outstanding : calls[i].event < submitEvents /\ calls[i].stage = "request"
    /\ fetchCount = 1

\* C7: a submit event while the draft is empty or all whitespace, or while
\* loading, changes neither messages, draft, loading flag nor error and issues
\* no network call.
C7_BlockedSubmitNoEffect ==
    [][(SubmitEvent /\ (Blank(draft) \/ isLoading)) =>
            UNCHANGED <<messages, draft, isLoading, error, idsCreated, fetchCount, calls>>]_vars

\* A submit event was received with a whitespace-only draft and nothing was sent.
C7_Witness ==
    /\ submitEvents = 1
    /\ fetchCount = 0
    /\ calls = <<>>
    /\ draft = <<" ", " ">>
    /\ Len(messages) = 1

\* C8: a submit event while canSubmit holds appends one user message with the
\* trimmed draft as content, empties the draft, sets error to null, sets
\* loading, and issues one request whose messages are the whole updated
\* transcript in order, role and content only.
C8_SubmitStep ==
    [][(SubmitEvent /\ ~Blank(draft) /\ ~isLoading) =>
            /\ Len(messages') = Len(messages) + 1
            /\ SubSeq(messages', 1, Len(messages)) = messages
            /\ messages'[Len(messages')].role = "user"
            /\ IsTrimOf(messages'[Len(messages')].content, draft)
            /\ messages'[Len(messages')].content # <<>>
            /\ draft' = <<>>
            /\ error' = "null"
            /\ isLoading'
            /\ fetchCount' = fetchCount + 1
            /\ Len(calls') = Len(calls) + 1
            /\ SubSeq(calls', 1, Len(calls)) = calls
            /\ LET c == calls'[Len(calls')] IN
                /\ c.from = "page"
                /\ c.stage = "request"
                /\ c.body.kind = "object"
                /\ Len(c.body.messages) = Len(messages')
                /\ \A i \in 1..Len(messages') :
                    /\ DOMAIN c.body.messages[i] = {"role", "content"}
                    /\ c.body.messages[i].role = messages'[i].role
                    /\ c.body.messages[i].content =
                            [type |-> "string", value |-> messages'[i].content]]_vars

\* The second submission is in flight: it cleared the error of the first and
\* carries the four messages of the transcript.
C8_Witness ==
    /\ Len(messages) = 4
    /\ messages[3].content = fallbackContent
    /\ messages[4].role = "user"
    /\ messages[4].content = <<"a", "a">>
    /\ draft = <<>>
    /\ error = Null
    /\ isLoading
    /\ Len(calls) = 1
    /\ calls[1].stage = "request"
    /\ Len(calls[1].body.messages) = 4

\* C9: when the fetch rejects, or its response is not OK or malformed, the end
\* of handleSubmit appends exactly one message, the fixed fallback assistant
\* message, makes error non-null and clears loading.
C9_FailurePath ==
    [][\A i \in Outstanding : (Settles(i) /\ FetchFailed(calls[i])) =>
            /\ Len(messages') = Len(messages) + 1
            /\ SubSeq(messages', 1, Len(messages)) = messages
            /\ messages'[Len(messages')].role = "assistant"
            /\ messages'[Len(messages')].content =
                    <<"S", "o", "m", "e", "t", "h", "i", "n", "g">>
            /\ error' # "null"
            /\ ~isLoading']_vars

\* A request was answered with a status that is not OK.
C9_Witness ==
    /\ ~isLoading
    /\ calls = <<>>
    /\ error = "Request failed with status 500"
    /\ Len(messages) = 3
    /\ messages[3].role = "assistant"
    /\ messages[3].content = fallbackContent

\* The roles alternate, starting with the assistant's introduction.
Alternates ==
    /\ messages[1].content = <<"I", "'", "m">>
    /\ \A i \in DOMAIN messages :
        messages[i].role = IF i % 2 = 1 THEN "assistant" ELSE "user"

\* C10: the list of messages is append-only; the end of every submission
\* appends exactly one assistant message (the trimmed reply on success, the
\* fallback on failure) and clears loading; while idle the list starts with
\* the introduction, alternates assistant/user and ends with an assistant
\* message; while loading its last message is the pending user message.
C10_Lifecycle ==
    /\ [](Alternates /\ messages[Len(messages)].role = IF isLoading THEN "user" ELSE "assistant")
    /\ [](\A i \in Outstanding :
            /\ Len(calls[i].body.messages) = Len(messages)
            /\ calls[i].body.messages[Len(messages)].content.value
                    = messages[Len(messages)].content)
    /\ [][/\ Len(messages') >= Len(messages)
          /\ SubSeq(messages', 1, Len(messages)) = messages
          /\ \A i \in Outstanding : Settles(i) =>
                /\ Len(messages') = Len(messages) + 1
                /\ messages'[Len(messages')].role = "assistant"
                /\ IF FetchFailed(calls[i])
                   THEN messages'[Len(messages')].content = fallbackContent
                   ELSE IsTrimOf(messages'[Len(messages')].content,
                                 calls[i].response.body.reply)
                /\ ~isLoading']_vars

\* Two submissions have ended, the first with a reply that was trimmed to
\* nothing, the second with the fallback.
C10_Witness ==
    /\ ~isLoading
    /\ calls = <<>>
    /\ Len(messages) = 5
    /\ messages[3].content = <<>>
    /\ messages[5].content = fallbackContent
    /\ error = "Request failed with status 400"

====
